---------------------------- MODULE Spec2Model ----------------------------
(***************************************************************************)
(* The 2048 rules engine (game-logic.ts) and the React hook that holds the *)
(* current game state (use-game.ts).                                       *)
(*                                                                         *)
(* A board is a sequence of rows, each row a sequence of tiles; 0 is an    *)
(* empty cell.  Indices are 1-based here and 0-based in the source.        *)
(* Math.random() is modelled by the two draws of addRandomTile: the index  *)
(* of the chosen empty cell and the value of the new tile.                 *)
(***************************************************************************)
EXTENDS Integers, Sequences, FiniteSets, TLC

VARIABLES
    boardSize,   \* useGame: const [boardSize, setBoardSize]
    gameState,   \* useGame: const [gameState, setGameState]
    prevState,   \* history: gameState before the last move or key press of
                 \*          this session (the fresh state when there was none)
    lastOp,      \* history: the last handler that ran
    lastDir,     \* history: the direction of the last move ("none" otherwise)
    lastResult,  \* history: what moveLeft/Right/Up/Down returned in the last move
    moves,       \* history: number of makeMove calls in this session
    before,      \* history: board size and flags the last handler found
    lastInput,   \* history: the text given to handleSizeChange, when it ran last
    line,        \* input of slideRow (line-level specification)
    slid,        \* what slideRow returned for line
    heap,        \* the arrays in memory after the last engine call
                 \*   (memory-level specification)
    pending,     \* the updaters queued by setGameState and not yet processed
                 \*   (render-level specification)
    applied      \* history: the updaters the last render processed

vars == <<boardSize, gameState, prevState, lastOp, lastDir, lastResult,
          moves, before, lastInput, line, slid, heap, pending, applied>>

-----------------------------------------------------------------------------
(* Bounds of the model *)

\* boards of size 1..MaxSize are explored
MaxSize == 2
\* tiles 2^1 .. 2^MaxExp are drawn for input boards and lines, beside 0 and
\* the tiles around the win threshold
MaxExp == 2
\* handleMove calls explored per session
MaxMoves == 3
\* consecutive makeMove calls explored from an input state
MaxCalls == 1
\* longest line given to slideRow in the line-level specification
MaxLineLen == 4
\* addRandomTile draws one of the first MaxPick empty cells (all the empty
\* cells of a board up to 2 x 2)
MaxPick == 4
\* moves explored per session on the page
MaxPageMoves == 1
\* handleMove calls and key presses explored per session when the updaters
\* are queued
MaxQueue == 3
\* renders explored per session when the updaters are queued
MaxRenders == 1
\* accepted moves explored in a game played to its end
MaxPlayMoves == 70
\* boards of size 1..MaxSlideSize are given to the four moves on their own
MaxSlideSize == 3

-----------------------------------------------------------------------------
(* Program constants *)

\* hasWon: cell >= 2048
WinTile == 2048

Directions == {"up", "down", "left", "right"}

\* addRandomTile: Math.random() < 0.9 ? 2 : 4
SpawnValues == {2, 4}

\* page.tsx: useGame(4)
DefaultSize == 4

\* game-controls.tsx: size >= 3 && size <= 10
MinBoardSize == 3
MaxBoardSize == 10

-----------------------------------------------------------------------------
(* Helpers for sequences *)

\* Sequences are built element by element, so that they are tuples.
RECURSIVE Reverse(_)
Reverse(s) == IF s = <<>> THEN <<>> ELSE Append(Reverse(Tail(s)), Head(s))

RECURSIVE Zeros(_)
Zeros(n) == IF n <= 0 THEN <<>> ELSE <<0>> \o Zeros(n - 1)

RECURSIVE Pow2(_)
Pow2(k) == IF k = 0 THEN 1 ELSE 2 * Pow2(k - 1)

-----------------------------------------------------------------------------
(* game-logic.ts *)

\* Array(size).fill(null).map(() => Array(size).fill(0))
RECURSIVE FillRows(_, _)
FillRows(n, row) == IF n <= 0 THEN <<>> ELSE <<row>> \o FillRows(n - 1, row)

createEmptyBoard(size) == FillRows(size, Zeros(size))

\* the cells of one row that hold 0, left to right
RECURSIVE EmptyInRow(_, _, _)
EmptyInRow(row, i, j) ==
    IF j > Len(row) THEN <<>>
    ELSE (IF row[j] = 0 THEN <<(<<i, j>>)>> ELSE <<>>)
         \o EmptyInRow(row, i, j + 1)

RECURSIVE EmptyFromRow(_, _)
EmptyFromRow(board, i) ==
    IF i > Len(board) THEN <<>>
    ELSE EmptyInRow(board[i], i, 1) \o EmptyFromRow(board, i + 1)

getEmptyCells(board) == EmptyFromRow(board, 1)

\* faulty variant: the cell is drawn among all the cells, occupied or not
addRandomTile_AnyCell(board, pick, value) ==
    LET size == Len(board)
        row == ((pick - 1) \div size) + 1
        col == ((pick - 1) % size) + 1
    IN  IF Len(getEmptyCells(board)) = 0 THEN board
        ELSE [board EXCEPT ![row][col] = value]

\* faulty variant: the tile written is twice the value drawn
addRandomTile_Doubled(board, pick, value) ==
    LET emptyCells == getEmptyCells(board) IN
    IF Len(emptyCells) = 0 THEN board
    ELSE LET row == emptyCells[pick][1]
             col == emptyCells[pick][2]
         IN  [board EXCEPT ![row][col] = 2 * value]

\* pick: 1 + Math.floor(Math.random() * emptyCells.length); value: 2 or 4
addRandomTile(board, pick, value) ==
    LET emptyCells == getEmptyCells(board) IN
    IF Len(emptyCells) = 0 THEN board
    ELSE LET row == emptyCells[pick][1]
             col == emptyCells[pick][2]
         IN  [board EXCEPT ![row][col] = value]

\* the draws Math.floor(Math.random() * emptyCells.length) can produce, of
\* which the first MaxPick are explored
Picks(board) ==
    IF Len(getEmptyCells(board)) = 0 THEN {1}
    ELSE IF Len(getEmptyCells(board)) > MaxPick THEN 1..MaxPick
         ELSE 1..Len(getEmptyCells(board))

\* faulty variant: only one tile is spawned
initializeGame_OneTile(size, pick1, value1, pick2, value2) ==
    LET board0 == createEmptyBoard(size)
        board1 == addRandomTile(board0, pick1, value1)
    IN  [board |-> board1, score |-> 0, gameOver |-> FALSE, won |-> FALSE]

initializeGame(size, pick1, value1, pick2, value2) ==
    LET board0 == createEmptyBoard(size)
        board1 == addRandomTile(board0, pick1, value1)
        board2 == addRandomTile(board1, pick2, value2)
    IN  [board |-> board2, score |-> 0, gameOver |-> FALSE, won |-> FALSE]

\* faulty variant: a value just created by a merge merges again with the next tile
RECURSIVE SlideLoop_Remerge(_, _, _, _)
SlideLoop_Remerge(filtered, i, merged, score) ==
    IF i > Len(filtered) THEN [row |-> merged, score |-> score]
    ELSE IF Len(merged) > 0 /\ merged[Len(merged)] = filtered[i]
         THEN LET mergedValue == filtered[i] * 2
              IN  SlideLoop_Remerge(filtered, i + 1,
                      Append(SubSeq(merged, 1, Len(merged) - 1), mergedValue),
                      score + mergedValue)
         ELSE SlideLoop_Remerge(filtered, i + 1, Append(merged, filtered[i]),
                                score)

\* faulty variant: the second tile of a merged pair stays in the line
RECURSIVE SlideLoop_PairStays(_, _, _, _)
SlideLoop_PairStays(filtered, i, merged, score) ==
    IF i > Len(filtered) THEN [row |-> merged, score |-> score]
    ELSE IF i + 1 <= Len(filtered) /\ filtered[i] = filtered[i + 1]
         THEN LET mergedValue == filtered[i] * 2
              IN  SlideLoop_PairStays(filtered, i + 1,
                      Append(merged, mergedValue), score + mergedValue)
         ELSE SlideLoop_PairStays(filtered, i + 1, Append(merged, filtered[i]),
                                  score)

\* faulty variant: a merge adds the next tile's value and one more
RECURSIVE SlideLoop_OffByOne(_, _, _, _)
SlideLoop_OffByOne(filtered, i, merged, score) ==
    IF i > Len(filtered) THEN [row |-> merged, score |-> score]
    ELSE IF i + 1 <= Len(filtered) /\ filtered[i] = filtered[i + 1]
         THEN LET mergedValue == filtered[i] * 2 + 1
              IN  SlideLoop_OffByOne(filtered, i + 2, Append(merged, mergedValue),
                                     score + mergedValue)
         ELSE SlideLoop_OffByOne(filtered, i + 1, Append(merged, filtered[i]),
                                 score)

\* faulty variant: a merged pair leaves one tile of the value it had
RECURSIVE SlideLoop_NotDoubled(_, _, _, _)
SlideLoop_NotDoubled(filtered, i, merged, score) ==
    IF i > Len(filtered) THEN [row |-> merged, score |-> score]
    ELSE IF i + 1 <= Len(filtered) /\ filtered[i] = filtered[i + 1]
         THEN LET mergedValue == filtered[i]
              IN  SlideLoop_NotDoubled(filtered, i + 2,
                      Append(merged, mergedValue), score + mergedValue)
         ELSE SlideLoop_NotDoubled(filtered, i + 1,
                                   Append(merged, filtered[i]), score)

\* faulty variant: a merged pair leaves no tile
RECURSIVE SlideLoop_PairLost(_, _, _, _)
SlideLoop_PairLost(filtered, i, merged, score) ==
    IF i > Len(filtered) THEN [row |-> merged, score |-> score]
    ELSE IF i + 1 <= Len(filtered) /\ filtered[i] = filtered[i + 1]
         THEN LET mergedValue == filtered[i] * 2
              IN  SlideLoop_PairLost(filtered, i + 2, merged,
                                     score + mergedValue)
         ELSE SlideLoop_PairLost(filtered, i + 1, Append(merged, filtered[i]),
                                 score)

\* the while loop of slideRow, from index i (1-based) on
RECURSIVE SlideLoop(_, _, _, _)
SlideLoop(filtered, i, merged, score) ==
    IF i > Len(filtered) THEN [row |-> merged, score |-> score]
    ELSE IF i + 1 <= Len(filtered) /\ filtered[i] = filtered[i + 1]
         THEN LET mergedValue == filtered[i] * 2
              IN  SlideLoop(filtered, i + 2, Append(merged, mergedValue),
                            score + mergedValue)
         ELSE SlideLoop(filtered, i + 1, Append(merged, filtered[i]), score)

NonZero(cell) == cell # 0

\* faulty variant: the empty cells are not filtered out
slideRow_ZerosKept(row) ==
    LET looped == SlideLoop(row, 1, <<>>, 0)
        merged == looped.row
        padded == IF Len(merged) < Len(row)
                  THEN merged \o Zeros(Len(row) - Len(merged))
                  ELSE merged
    IN  [row |-> padded, score |-> looped.score]

slideRow(row) ==
    LET filtered == SelectSeq(row, NonZero)
        looped == SlideLoop(filtered, 1, <<>>, 0)
        merged == looped.row
        padded == IF Len(merged) < Len(row)
                  THEN merged \o Zeros(Len(row) - Len(merged))
                  ELSE merged
    IN  [row |-> padded, score |-> looped.score]

\* board[0].map((_, colIndex) => board.map(row => row[colIndex]).reverse())
\* board.map(row => row[colIndex])
RECURSIVE Column(_, _, _)
Column(board, colIndex, r) ==
    IF r > Len(board) THEN <<>>
    ELSE <<board[r][colIndex]>> \o Column(board, colIndex, r + 1)

\* faulty variant: every new row is read from the first column
RECURSIVE RotateFrom_FirstColumn(_, _)
RotateFrom_FirstColumn(board, colIndex) ==
    IF colIndex > Len(board[1]) THEN <<>>
    ELSE <<Reverse(Column(board, 1, 1))>>
         \o RotateFrom_FirstColumn(board, colIndex + 1)

\* faulty variant: the column is not reversed
RECURSIVE RotateFrom_NoReverse(_, _)
RotateFrom_NoReverse(board, colIndex) ==
    IF colIndex > Len(board[1]) THEN <<>>
    ELSE <<Column(board, colIndex, 1)>> \o RotateFrom_NoReverse(board, colIndex + 1)

RECURSIVE RotateFrom(_, _)
RotateFrom(board, colIndex) ==
    IF colIndex > Len(board[1]) THEN <<>>
    ELSE <<Reverse(Column(board, colIndex, 1))>> \o RotateFrom(board, colIndex + 1)

rotateBoard(board) == RotateFrom(board, 1)

boardsEqual(board1, board2) ==
    \A i \in 1..Len(board1) :
        \A j \in 1..Len(board1[i]) : board1[i][j] = board2[i][j]

\* board.map(row => ...) of moveLeft, from row i on, totalScore accumulating
RECURSIVE MoveLeftFrom(_, _, _, _)
MoveLeftFrom(board, i, newBoard, totalScore) ==
    IF i > Len(board) THEN [board |-> newBoard, score |-> totalScore]
    ELSE LET slidRow == slideRow(board[i])
         IN  MoveLeftFrom(board, i + 1, Append(newBoard, slidRow.row),
                          totalScore + slidRow.score)

\* faulty variant: the first row is left out of the new board
moveLeft_SkipFirstRow(board) == MoveLeftFrom(board, 2, <<>>, 0)

moveLeft(board) == MoveLeftFrom(board, 1, <<>>, 0)

\* faulty variant: the slid row is not reversed back
RECURSIVE MoveRightFrom_NotReversedBack(_, _, _, _)
MoveRightFrom_NotReversedBack(board, i, newBoard, totalScore) ==
    IF i > Len(board) THEN [board |-> newBoard, score |-> totalScore]
    ELSE LET reversed == Reverse(board[i])
             slidRow == slideRow(reversed)
         IN  MoveRightFrom_NotReversedBack(board, i + 1,
                 Append(newBoard, slidRow.row), totalScore + slidRow.score)

\* faulty variant: the score of a row replaces the total instead of adding to it
RECURSIVE MoveRightFrom_ScoreNotSummed(_, _, _, _)
MoveRightFrom_ScoreNotSummed(board, i, newBoard, totalScore) ==
    IF i > Len(board) THEN [board |-> newBoard, score |-> totalScore]
    ELSE LET reversed == Reverse(board[i])
             slidRow == slideRow(reversed)
         IN  MoveRightFrom_ScoreNotSummed(board, i + 1,
                 Append(newBoard, Reverse(slidRow.row)), slidRow.score)

\* board.map(row => ...) of moveRight, from row i on
RECURSIVE MoveRightFrom(_, _, _, _)
MoveRightFrom(board, i, newBoard, totalScore) ==
    IF i > Len(board) THEN [board |-> newBoard, score |-> totalScore]
    ELSE LET reversed == Reverse(board[i])
             slidRow == slideRow(reversed)
         IN  MoveRightFrom(board, i + 1, Append(newBoard, Reverse(slidRow.row)),
                           totalScore + slidRow.score)

moveRight(board) == MoveRightFrom(board, 1, <<>>, 0)

\* faulty variant: one rotation before and three after, as moveDown does
moveUp_AsDown(board) ==
    LET rotated == rotateBoard(board)
        moved == moveLeft(rotated)
    IN  [board |-> rotateBoard(rotateBoard(rotateBoard(moved.board))),
         score |-> moved.score]

moveUp(board) ==
    LET rotated == rotateBoard(rotateBoard(rotateBoard(board)))
        moved == moveLeft(rotated)
    IN  [board |-> rotateBoard(moved.board), score |-> moved.score]

moveDown(board) ==
    LET rotated == rotateBoard(board)
        moved == moveLeft(rotated)
    IN  [board |-> rotateBoard(rotateBoard(rotateBoard(moved.board))),
         score |-> moved.score]

\* faulty variant: only the right neighbour is compared
canMove_NoVertical(board) ==
    \/ Len(getEmptyCells(board)) > 0
    \/ LET size == Len(board) IN
       \E i \in 1..size : \E j \in 1..size :
           j < size /\ board[i][j] = board[i][j + 1]

\* faulty variant: only empty cells are looked for, not equal neighbours
canMove_OnlyEmpty(board) == Len(getEmptyCells(board)) > 0

canMove(board) ==
    \/ Len(getEmptyCells(board)) > 0
    \/ LET size == Len(board) IN
       \E i \in 1..size : \E j \in 1..size :
           \/ j < size /\ board[i][j] = board[i][j + 1]
           \/ i < size /\ board[i][j] = board[i + 1][j]

\* faulty variant: only a tile above 2048 counts
hasWon_Above(board) ==
    \E i \in 1..Len(board) : \E j \in 1..Len(board[i]) : board[i][j] > WinTile

hasWon(board) ==
    \E i \in 1..Len(board) : \E j \in 1..Len(board[i]) : board[i][j] >= WinTile

\* the switch of makeMove
applyDirection(board, direction) ==
    CASE direction = "left" -> moveLeft(board)
      [] direction = "right" -> moveRight(board)
      [] direction = "up" -> moveUp(board)
      [] direction = "down" -> moveDown(board)

\* faulty variant: neither the terminal state nor the unchanged grid returns early
makeMove_NoEarlyReturn(state, direction, pick, value) ==
    LET result == applyDirection(state.board, direction)
        newBoard == addRandomTile(result.board, pick, value)
        newScore == state.score + result.score
        won == ~state.won /\ hasWon(newBoard)
        gameOver == ~canMove(newBoard)
    IN  [board |-> newBoard, score |-> newScore,
         gameOver |-> gameOver, won |-> won]

\* faulty variant: a move that changes nothing still spawns a tile
makeMove_NoEqualReturn(state, direction, pick, value) ==
    IF state.gameOver THEN state
    ELSE LET result == applyDirection(state.board, direction)
             newBoard == addRandomTile(result.board, pick, value)
             newScore == state.score + result.score
             won == ~state.won /\ hasWon(newBoard)
             gameOver == ~canMove(newBoard)
         IN  [board |-> newBoard, score |-> newScore,
              gameOver |-> gameOver, won |-> won]

\* faulty variant: the score of the move replaces the score so far
makeMove_ScoreReplaced(state, direction, pick, value) ==
    IF state.gameOver THEN state
    ELSE LET result == applyDirection(state.board, direction) IN
         IF boardsEqual(result.board, state.board) THEN state
         ELSE LET newBoard == addRandomTile(result.board, pick, value)
                  newScore == result.score
                  won == ~state.won /\ hasWon(newBoard)
                  gameOver == ~canMove(newBoard)
              IN  [board |-> newBoard, score |-> newScore,
                   gameOver |-> gameOver, won |-> won]

\* faulty variant: a state that has won takes no more moves
makeMove_StopWhenWon(state, direction, pick, value) ==
    IF state.gameOver \/ state.won THEN state
    ELSE LET result == applyDirection(state.board, direction) IN
         IF boardsEqual(result.board, state.board) THEN state
         ELSE LET newBoard == addRandomTile(result.board, pick, value)
                  newScore == state.score + result.score
                  won == ~state.won /\ hasWon(newBoard)
                  gameOver == ~canMove(newBoard)
              IN  [board |-> newBoard, score |-> newScore,
                   gameOver |-> gameOver, won |-> won]

\* faulty variant: the value of the spawned tile is counted in the score
makeMove_ScoreCountsSpawn(state, direction, pick, value) ==
    IF state.gameOver THEN state
    ELSE LET result == applyDirection(state.board, direction) IN
         IF boardsEqual(result.board, state.board) THEN state
         ELSE LET newBoard == addRandomTile(result.board, pick, value)
                  newScore == state.score + result.score + value
                  won == ~state.won /\ hasWon(newBoard)
                  gameOver == ~canMove(newBoard)
              IN  [board |-> newBoard, score |-> newScore,
                   gameOver |-> gameOver, won |-> won]

\* faulty variant: no tile is spawned after the slide
makeMove_NoSpawn(state, direction, pick, value) ==
    IF state.gameOver THEN state
    ELSE LET result == applyDirection(state.board, direction) IN
         IF boardsEqual(result.board, state.board) THEN state
         ELSE LET newBoard == result.board
                  newScore == state.score + result.score
                  won == ~state.won /\ hasWon(newBoard)
                  gameOver == ~canMove(newBoard)
              IN  [board |-> newBoard, score |-> newScore,
                   gameOver |-> gameOver, won |-> won]

\* faulty variant: the terminal flag is computed before the spawn
makeMove_GameOverBeforeSpawn(state, direction, pick, value) ==
    IF state.gameOver THEN state
    ELSE LET result == applyDirection(state.board, direction) IN
         IF boardsEqual(result.board, state.board) THEN state
         ELSE LET newBoard == addRandomTile(result.board, pick, value)
                  newScore == state.score + result.score
                  won == ~state.won /\ hasWon(newBoard)
                  gameOver == ~canMove(result.board)
              IN  [board |-> newBoard, score |-> newScore,
                   gameOver |-> gameOver, won |-> won]

makeMove(state, direction, pick, value) ==
    IF state.gameOver THEN state
    ELSE LET result == applyDirection(state.board, direction) IN
         IF boardsEqual(result.board, state.board) THEN state
         ELSE LET newBoard == addRandomTile(result.board, pick, value)
                  newScore == state.score + result.score
                  won == ~state.won /\ hasWon(newBoard)
                  gameOver == ~canMove(newBoard)
              IN  [board |-> newBoard, score |-> newScore,
                   gameOver |-> gameOver, won |-> won]

-----------------------------------------------------------------------------
(* game-logic.ts with its arrays in memory *)

\* A memory h is the sequence of the arrays created so far; the address of
\* an array is its index.  A row holds tiles, a board holds the addresses of
\* its rows.  map, filter, the spread [...a] and an array literal create an
\* array; reverse, push and an assignment to an element change one in place.
\* An operator that reads the memory it is given several times binds it
\* first, as the only element of a set, so that it is computed once.

Alloc(h, array) == Append(h, array)

\* a.reverse()
ReverseAt(h, a) == [h EXCEPT ![a] = Reverse(h[a])]

\* the tiles of the board at address b
RECURSIVE RowsAt(_, _, _)
RowsAt(h, b, i) ==
    IF i > Len(h[b]) THEN <<>> ELSE <<h[h[b][i]]>> \o RowsAt(h, b, i + 1)

BoardAt(h, b) == RowsAt(h, b, 1)

RECURSIVE UpTo(_, _)
UpTo(i, n) == IF i > n THEN <<>> ELSE <<i>> \o UpTo(i + 1, n)

\* the memory that holds board and nothing else: its rows, then the board
HeapOf(board) == Append(board, UpTo(1, Len(board)))

\* the address of board in HeapOf(board)
AddressIn(board) == Len(board) + 1

\* slideRow: filter creates filtered, merged is a new array that is pushed to
slideRowAt(h, r) ==
    LET row == h[r]
        filtered == SelectSeq(row, NonZero)
        h1 == Alloc(h, filtered)
        looped == SlideLoop(filtered, 1, <<>>, 0)
        merged == looped.row
        padded == IF Len(merged) < Len(row)
                  THEN merged \o Zeros(Len(row) - Len(merged))
                  ELSE merged
        h2 == Alloc(h1, padded)
    IN  [heap |-> h2, row |-> Len(h2), score |-> looped.score]

\* moveLeft: board.map creates the new board
RECURSIVE MoveLeftAtFrom(_, _, _, _, _)
MoveLeftAtFrom(h, b, i, newRows, totalScore) ==
    CHOOSE moved \in {
        IF i > Len(m[b])
        THEN LET h1 == Alloc(m, newRows)
             IN  [heap |-> h1, board |-> Len(h1), score |-> totalScore]
        ELSE LET slidRow == slideRowAt(m, m[b][i])
             IN  MoveLeftAtFrom(slidRow.heap, b, i + 1,
                                Append(newRows, slidRow.row),
                                totalScore + slidRow.score) : m \in {h}} : TRUE

moveLeftAt(h, b) ==
    CHOOSE moved \in {MoveLeftAtFrom(at[1], at[2], 1, <<>>, 0) :
                         at \in {<<h, b>>}} : TRUE

\* faulty variant: row.reverse() on the row itself, without the copy [...row]
RECURSIVE MoveRightAtFrom_NoCopy(_, _, _, _, _)
MoveRightAtFrom_NoCopy(h, b, i, newRows, totalScore) ==
    CHOOSE moved \in {
        IF i > Len(m[b])
        THEN LET h1 == Alloc(m, newRows)
             IN  [heap |-> h1, board |-> Len(h1), score |-> totalScore]
        ELSE LET h2 == ReverseAt(m, m[b][i])
                 slidRow == slideRowAt(h2, m[b][i])
                 h3 == ReverseAt(slidRow.heap, slidRow.row)
             IN  MoveRightAtFrom_NoCopy(h3, b, i + 1,
                                        Append(newRows, slidRow.row),
                                        totalScore + slidRow.score) :
        m \in {h}} : TRUE

\* moveRight: [...row] is a copy, which reverse() turns round in place;
\* newRow.reverse() turns round the array slideRow created
RECURSIVE MoveRightAtFrom(_, _, _, _, _)
MoveRightAtFrom(h, b, i, newRows, totalScore) ==
    CHOOSE moved \in {
        IF i > Len(m[b])
        THEN LET h1 == Alloc(m, newRows)
             IN  [heap |-> h1, board |-> Len(h1), score |-> totalScore]
        ELSE LET h1 == Alloc(m, m[m[b][i]])
                 reversed == Len(h1)
                 h2 == ReverseAt(h1, reversed)
                 slidRow == slideRowAt(h2, reversed)
                 h3 == ReverseAt(slidRow.heap, slidRow.row)
             IN  MoveRightAtFrom(h3, b, i + 1, Append(newRows, slidRow.row),
                                 totalScore + slidRow.score) :
        m \in {h}} : TRUE

moveRightAt(h, b) ==
    CHOOSE moved \in {MoveRightAtFrom(at[1], at[2], 1, <<>>, 0) :
                         at \in {<<h, b>>}} : TRUE

\* rotateBoard: board.map(row => row[colIndex]) creates the column, which
\* reverse() turns round in place; board[0].map creates the new board
RECURSIVE RotateAtFrom(_, _, _, _)
RotateAtFrom(h, b, colIndex, newRows) ==
    CHOOSE rotated \in {
        IF colIndex > Len(m[m[b][1]])
        THEN LET h1 == Alloc(m, newRows)
             IN  [heap |-> h1, board |-> Len(h1)]
        ELSE LET h1 == Alloc(m, Column(BoardAt(m, b), colIndex, 1))
                 h2 == ReverseAt(h1, Len(h1))
             IN  RotateAtFrom(h2, b, colIndex + 1, Append(newRows, Len(h1))) :
        m \in {h}} : TRUE

rotateBoardAt(h, b) ==
    CHOOSE rotated \in {RotateAtFrom(at[1], at[2], 1, <<>>) :
                           at \in {<<h, b>>}} : TRUE

moveUpAt(h, b) ==
    LET r1 == rotateBoardAt(h, b)
        r2 == rotateBoardAt(r1.heap, r1.board)
        rotated == rotateBoardAt(r2.heap, r2.board)
        moved == moveLeftAt(rotated.heap, rotated.board)
        result == rotateBoardAt(moved.heap, moved.board)
    IN  [heap |-> result.heap, board |-> result.board, score |-> moved.score]

moveDownAt(h, b) ==
    LET rotated == rotateBoardAt(h, b)
        moved == moveLeftAt(rotated.heap, rotated.board)
        r1 == rotateBoardAt(moved.heap, moved.board)
        r2 == rotateBoardAt(r1.heap, r1.board)
        result == rotateBoardAt(r2.heap, r2.board)
    IN  [heap |-> result.heap, board |-> result.board, score |-> moved.score]

applyDirectionAt(h, b, direction) ==
    CASE direction = "left" -> moveLeftAt(h, b)
      [] direction = "right" -> moveRightAt(h, b)
      [] direction = "up" -> moveUpAt(h, b)
      [] direction = "down" -> moveDownAt(h, b)

\* board.map(r => [...r]): a copy of every row and a new board
RECURSIVE CopyRowsFrom(_, _, _, _)
CopyRowsFrom(h, b, i, newRows) ==
    CHOOSE copied \in {
        IF i > Len(m[b])
        THEN LET h1 == Alloc(m, newRows)
             IN  [heap |-> h1, board |-> Len(h1)]
        ELSE LET h1 == Alloc(m, m[m[b][i]])
             IN  CopyRowsFrom(h1, b, i + 1, Append(newRows, Len(h1))) :
        m \in {h}} : TRUE

\* addRandomTile: a full board is returned itself; otherwise the tile is
\* written into the copy
addRandomTileAt(h, b, pick, value) ==
    CHOOSE spawned \in {
        LET emptyCells == getEmptyCells(BoardAt(at[1], at[2])) IN
        IF Len(emptyCells) = 0 THEN [heap |-> at[1], board |-> at[2]]
        ELSE LET row == emptyCells[pick][1]
                 col == emptyCells[pick][2]
                 newBoard == CopyRowsFrom(at[1], at[2], 1, <<>>)
                 h1 == newBoard.heap
             IN  [heap |-> [h1 EXCEPT ![h1[newBoard.board][row]][col] = value],
                  board |-> newBoard.board] :
        at \in {<<h, b>>}} : TRUE

\* makeMove; state.board is the address of the board
makeMoveAt(h, state, direction, pick, value) ==
    IF state.gameOver THEN [heap |-> h, state |-> state]
    ELSE CHOOSE made \in {
         IF boardsEqual(BoardAt(result.heap, result.board),
                        BoardAt(result.heap, state.board))
         THEN [heap |-> result.heap, state |-> state]
         ELSE CHOOSE next \in {
              LET newBoard == BoardAt(spawned.heap, spawned.board)
                  newScore == state.score + result.score
                  won == ~state.won /\ hasWon(newBoard)
                  gameOver == ~canMove(newBoard)
              IN  [heap |-> spawned.heap,
                   state |-> [board |-> spawned.board, score |-> newScore,
                              gameOver |-> gameOver, won |-> won]] :
              spawned \in {addRandomTileAt(result.heap, result.board,
                                           pick, value)}} : TRUE :
         result \in {applyDirectionAt(h, state.board, direction)}} : TRUE

-----------------------------------------------------------------------------
(* Input sets *)

Sizes == 1..MaxSize

\* 0, the small tiles, and the two tiles around the win threshold
TileValues == {0} \cup {Pow2(k) : k \in 1..MaxExp} \cup {WinTile \div 2, WinTile}

\* scores an input state starts from
InputScores == {0, 4}

RECURSIVE Tuples(_, _)
Tuples(n, S) ==
    IF n = 0 THEN {<<>>}
    ELSE {<<x>> \o t : x \in S, t \in Tuples(n - 1, S)}

Boards(n) == Tuples(n, Tuples(n, TileValues))

\* The game states handed to makeMove.  The flags are those the program can
\* hold for the board: makeMove sets gameOver to ~canMove(newBoard) and sets
\* won only when hasWon(newBoard); a 1 x 1 board never accepts a move, so its
\* gameOver stays FALSE as initializeGame left it.  The score is independent
\* of the board.
InputStates(n) ==
    {[board |-> x[1], score |-> x[2],
      gameOver |-> (n >= 2 /\ ~canMove(x[1])), won |-> x[3]] :
        x \in {y \in Boards(n) \X InputScores \X BOOLEAN :
                  y[3] => hasWon(y[1])}}

Lines == UNION {Tuples(n, TileValues) : n \in 0..MaxLineLen}

\* what initializeGame(size) can return
FreshStatesOf(size) ==
    UNION {{initializeGame(size, first[1], first[2], pick2, value2) :
                pick2 \in Picks(addRandomTile(createEmptyBoard(size),
                                              first[1], first[2])),
                value2 \in SpawnValues} :
           first \in Picks(createEmptyBoard(size)) \X SpawnValues}

FreshTable ==
    [size \in Sizes \cup (MinBoardSize..MaxBoardSize) \cup {DefaultSize}
        |-> FreshStatesOf(size)]

FreshStates(size) == FreshTable[size]

NoLine == <<>>

\* no array is followed in memory
NoHeap == <<>>
NoSlid == [row |-> <<>>, score |-> 0]

\* the hook is not mounted (line-level specification)
NoGame == [board |-> <<>>, score |-> 0, gameOver |-> FALSE, won |-> FALSE]

\* no text has been given to handleSizeChange
NoInput == <<>>

\* what a handler finds when it starts: the board size and the flags
Found(size, state) ==
    [boardSize |-> size, gameOver |-> state.gameOver, won |-> state.won]

-----------------------------------------------------------------------------
(* use-game.ts *)

Keys == {"ArrowUp", "ArrowDown", "ArrowLeft", "ArrowRight", "Other"}

KeyDirection(key) ==
    CASE key = "ArrowUp" -> "up"
      [] key = "ArrowDown" -> "down"
      [] key = "ArrowLeft" -> "left"
      [] key = "ArrowRight" -> "right"
      [] OTHER -> "none"

\* useState(() => initializeGame(boardSize))
Init ==
    /\ boardSize \in Sizes
    /\ gameState \in FreshStates(boardSize)
    /\ prevState = gameState
    /\ lastOp = "init"
    /\ lastDir = "none"
    /\ lastResult = [board |-> gameState.board, score |-> 0]
    /\ moves = 0
    /\ before = Found(boardSize, gameState)
    /\ lastInput = NoInput
    /\ line = NoLine
    /\ slid = NoSlid
    /\ heap = NoHeap
    /\ pending = <<>>
    /\ applied = <<>>

\* makeMove called on any game state of the input set
InitEngine ==
    /\ boardSize \in Sizes
    /\ gameState \in InputStates(boardSize)
    /\ prevState = gameState
    /\ lastOp = "init"
    /\ lastDir = "none"
    /\ lastResult = [board |-> gameState.board, score |-> 0]
    /\ moves = 0
    /\ before = Found(boardSize, gameState)
    /\ lastInput = NoInput
    /\ line = NoLine
    /\ slid = NoSlid
    /\ heap = NoHeap
    /\ pending = <<>>
    /\ applied = <<>>

\* setGameState((prevState) => makeMove(prevState, direction))
Move(direction, op, limit) ==
    /\ moves < limit
    /\ \E pick \in Picks(applyDirection(gameState.board, direction).board),
          value \in SpawnValues :
          gameState' = makeMove(gameState, direction, pick, value)
    /\ prevState' = gameState
    /\ lastOp' = op
    /\ lastDir' = direction
    /\ lastResult' = applyDirection(gameState.board, direction)
    /\ moves' = moves + 1
    /\ before' = Found(boardSize, gameState)
    /\ lastInput' = NoInput
    /\ UNCHANGED <<boardSize, line, slid, heap,
                   pending, applied>>

handleMove(direction) == Move(direction, "move", MaxMoves)

handleKeyPress(key) ==
    IF gameState.gameOver \/ KeyDirection(key) = "none"
    THEN /\ prevState' = gameState
         /\ lastOp' = "key"
         /\ lastDir' = "none"
         /\ lastResult' = [board |-> gameState.board, score |-> 0]
         /\ before' = Found(boardSize, gameState)
         /\ lastInput' = NoInput
         /\ UNCHANGED <<boardSize, gameState, moves, line, slid, heap,
                   pending, applied>>
    ELSE Move(KeyDirection(key), "key", MaxMoves)

\* faulty variant: the score of the replaced state is carried over
NewSession_KeepScore(size, op, text) ==
    /\ boardSize' = size
    /\ gameState' \in {[fresh EXCEPT !.score = gameState.score] :
                          fresh \in FreshStates(size)}
    /\ prevState' = gameState'
    /\ lastOp' = op
    /\ lastDir' = "none"
    /\ lastResult' = [board |-> gameState'.board, score |-> 0]
    /\ moves' = 0
    /\ before' = Found(boardSize, gameState)
    /\ lastInput' = text
    /\ UNCHANGED <<line, slid, heap,
                   pending, applied>>

NewSession(size, op, text) ==
    /\ boardSize' = size
    /\ gameState' \in FreshStates(size)
    /\ prevState' = gameState'
    /\ lastOp' = op
    /\ lastDir' = "none"
    /\ lastResult' = [board |-> gameState'.board, score |-> 0]
    /\ moves' = 0
    /\ before' = Found(boardSize, gameState)
    /\ lastInput' = text
    /\ UNCHANGED <<line, slid, heap,
                   pending, applied>>

handleRestart == NewSession(boardSize, "restart", NoInput)

handleBoardSizeChange(newSize) == NewSession(newSize, "resize", NoInput)

Next ==
    \/ \E direction \in Directions : handleMove(direction)
    \/ \E key \in Keys : handleKeyPress(key)
    \/ handleRestart
    \/ \E newSize \in Sizes : handleBoardSizeChange(newSize)

Spec == Init /\ [][Next]_vars

\* makeMove applied to an input state, and again to what it returned
callMakeMove(direction) == Move(direction, "move", MaxCalls)

NextEngine == \E direction \in Directions : callMakeMove(direction)

SpecEngine == InitEngine /\ [][NextEngine]_vars

\* The sizes of the sessions that handleRestart and handleBoardSizeChange
\* replace and start: those the settings dialog lets through, and the 2 x 2
\* boards on which every game state is drawn.
PlayableSizes == {size \in Sizes : size >= 2}

SessionSizes == PlayableSizes \cup (MinBoardSize..MaxBoardSize)

\* handleRestart or handleBoardSizeChange called in any game state
InitSession ==
    /\ boardSize \in PlayableSizes
    /\ gameState \in InputStates(boardSize)
    /\ prevState = gameState
    /\ lastOp = "init"
    /\ lastDir = "none"
    /\ lastResult = [board |-> gameState.board, score |-> 0]
    /\ moves = 0
    /\ before = Found(boardSize, gameState)
    /\ lastInput = NoInput
    /\ line = NoLine
    /\ slid = NoSlid
    /\ heap = NoHeap
    /\ pending = <<>>
    /\ applied = <<>>

NextSession ==
    \/ handleRestart
    \/ \E newSize \in SessionSizes : handleBoardSizeChange(newSize)

SpecSession == InitSession /\ [][NextSession]_vars

-----------------------------------------------------------------------------
(* page.tsx, game-controls.tsx, game-status.tsx *)

\* A text is a sequence of characters.
Digits == <<"0", "1", "2", "3", "4", "5", "6", "7", "8", "9">>

IsDigit(c) == \E d \in 1..10 : Digits[d] = c

DigitValue(c) == (CHOOSE d \in 1..10 : Digits[d] = c) - 1

\* a JavaScript number: NaN, or the integer in value
NaN == [isNaN |-> TRUE, value |-> 0]
Number(n) == [isNaN |-> FALSE, value |-> n]

\* size >= 3 && size <= 10: every comparison with NaN is false
InRange(size, low, high) ==
    ~size.isNaN /\ size.value >= low /\ size.value <= high

\* the index of the first character of text, from i on, that is not a blank
RECURSIVE SkipBlanks(_, _)
SkipBlanks(text, i) ==
    IF i <= Len(text) /\ text[i] = " " THEN SkipBlanks(text, i + 1) ELSE i

\* the number written by the digits of text from i up to the first character
\* that is not a digit
RECURSIVE ReadDigits(_, _, _)
ReadDigits(text, i, acc) ==
    IF i > Len(text) \/ ~IsDigit(text[i]) THEN acc
    ELSE ReadDigits(text, i + 1, acc * 10 + DigitValue(text[i]))

\* parseInt(value): leading blanks and one sign are skipped, the digits that
\* follow are read up to the first other character; NaN when there is none
parseInt(text) ==
    LET start == SkipBlanks(text, 1)
        signed == start <= Len(text) /\ text[start] \in {"+", "-"}
        first == IF signed THEN start + 1 ELSE start
    IN  IF first > Len(text) \/ ~IsDigit(text[first]) THEN NaN
        ELSE IF signed /\ text[start] = "-"
             THEN Number(0 - ReadDigits(text, first, 0))
             ELSE Number(ReadDigits(text, first, 0))

\* texts the input of the settings dialog hands to handleSizeChange
SizeInputs ==
    {<<>>, <<"-", "3">>, <<"2">>, <<"3">>, <<"1", "0">>, <<"1", "1">>,
     <<"3", ".", "7">>, <<"1", "e", "1">>}

\* faulty variant: sizes from 2 on are let through
handleSizeChange_FromTwo(value) ==
    LET size == parseInt(value) IN
    IF InRange(size, MinBoardSize - 1, MaxBoardSize)
    THEN NewSession(size.value, "size", value)
    ELSE /\ prevState' = gameState
         /\ lastOp' = "size"
         /\ lastDir' = "none"
         /\ lastResult' = [board |-> gameState.board, score |-> 0]
         /\ before' = Found(boardSize, gameState)
         /\ lastInput' = value
         /\ UNCHANGED <<boardSize, gameState, moves, line, slid, heap,
                   pending, applied>>

\* onChange of the board-size input; onBoardSizeChange is
\* handleBoardSizeChange of the hook
handleSizeChange(value) ==
    LET size == parseInt(value) IN
    IF InRange(size, MinBoardSize, MaxBoardSize)
    THEN NewSession(size.value, "size", value)
    ELSE /\ prevState' = gameState
         /\ lastOp' = "size"
         /\ lastDir' = "none"
         /\ lastResult' = [board |-> gameState.board, score |-> 0]
         /\ before' = Found(boardSize, gameState)
         /\ lastInput' = value
         /\ UNCHANGED <<boardSize, gameState, moves, line, slid, heap,
                   pending, applied>>

\* a direction button of MobileControls, disabled while gameOver
pressDirection(direction) ==
    /\ ~gameState.gameOver
    /\ Move(direction, "move", MaxPageMoves)

\* const { ... } = useGame(4)
InitPage ==
    /\ boardSize = DefaultSize
    /\ gameState \in FreshStates(boardSize)
    /\ prevState = gameState
    /\ lastOp = "init"
    /\ lastDir = "none"
    /\ lastResult = [board |-> gameState.board, score |-> 0]
    /\ moves = 0
    /\ before = Found(boardSize, gameState)
    /\ lastInput = NoInput
    /\ line = NoLine
    /\ slid = NoSlid
    /\ heap = NoHeap
    /\ pending = <<>>
    /\ applied = <<>>

NextPage ==
    \/ \E value \in SizeInputs : handleSizeChange(value)
    \/ handleRestart
    \/ \E direction \in Directions : pressDirection(direction)

SpecPage == InitPage /\ [][NextPage]_vars

-----------------------------------------------------------------------------
(* slideRow on its own *)

InitLine ==
    /\ line \in Lines
    /\ slid = NoSlid
    /\ heap = NoHeap
    /\ pending = <<>>
    /\ applied = <<>>
    /\ lastOp = "init"
    /\ boardSize = 0
    /\ gameState = NoGame
    /\ prevState = NoGame
    /\ lastDir = "none"
    /\ lastResult = [board |-> <<>>, score |-> 0]
    /\ moves = 0
    /\ before = Found(0, NoGame)
    /\ lastInput = NoInput

SlideRow ==
    /\ lastOp = "init"
    /\ slid' = slideRow(line)
    /\ lastOp' = "slideRow"
    /\ UNCHANGED <<boardSize, gameState, prevState, lastDir, lastResult,
                   moves, before, lastInput, line, heap, pending, applied>>

NextLine == SlideRow

SpecLine == InitLine /\ [][NextLine]_vars

-----------------------------------------------------------------------------
(* addRandomTile and rotateBoard on their own *)

\* the boards given to them: every drawn board up to MaxSize x MaxSize, and
\* the boards initializeGame returns for the sizes of the settings dialog
InitBoard ==
    /\ boardSize \in Sizes \cup (MinBoardSize..MaxBoardSize)
    /\ gameState \in (IF boardSize \in Sizes THEN InputStates(boardSize)
                       ELSE FreshStates(boardSize))
    /\ prevState = gameState
    /\ lastOp = "init"
    /\ lastDir = "none"
    /\ lastResult = [board |-> gameState.board, score |-> 0]
    /\ moves = 0
    /\ before = Found(boardSize, gameState)
    /\ lastInput = NoInput
    /\ line = NoLine
    /\ slid = NoSlid
    /\ heap = NoHeap
    /\ pending = <<>>
    /\ applied = <<>>

\* addRandomTile called on the board of an input state
callAddRandomTile ==
    /\ lastOp = "init"
    /\ \E pick \in Picks(gameState.board), value \in SpawnValues :
          lastResult' = [board |-> addRandomTile(gameState.board, pick, value),
                         score |-> 0]
    /\ lastOp' = "addRandomTile"
    /\ UNCHANGED <<boardSize, gameState, prevState, lastDir, moves, before,
                   lastInput, line, slid, heap,
                   pending, applied>>

\* rotateBoard called on the board of an input state, then on what it
\* returned, up to the four calls moveUp or moveDown make
callRotateBoard ==
    /\ lastOp \in {"init", "rotateBoard"}
    /\ moves < 4
    /\ lastResult' = [board |-> rotateBoard(lastResult.board), score |-> 0]
    /\ lastOp' = "rotateBoard"
    /\ moves' = moves + 1
    /\ UNCHANGED <<boardSize, gameState, prevState, lastDir, before, lastInput,
                   line, slid, heap,
                   pending, applied>>

\* moveLeft, moveRight, moveUp or moveDown called on the board
callApplyDirection(direction) ==
    /\ lastOp = "init"
    /\ lastResult' = applyDirection(gameState.board, direction)
    /\ lastOp' = "applyDirection"
    /\ lastDir' = direction
    /\ UNCHANGED <<boardSize, gameState, prevState, moves, before, lastInput,
                   line, slid, heap, pending, applied>>

NextBoard ==
    \/ callAddRandomTile
    \/ callRotateBoard
    \/ \E direction \in Directions : callApplyDirection(direction)

SpecBoard == InitBoard /\ [][NextBoard]_vars

\* the tiles of the boards given to the four moves on their own
SlideTiles == {0} \cup {Pow2(k) : k \in 1..MaxExp}

\* moveLeft, moveRight, moveUp and moveDown called on any board of small tiles
InitSlide ==
    /\ boardSize \in 1..MaxSlideSize
    /\ \E board \in Tuples(boardSize, Tuples(boardSize, SlideTiles)) :
          gameState = [board |-> board, score |-> 0,
                       gameOver |-> (boardSize >= 2 /\ ~canMove(board)),
                       won |-> FALSE]
    /\ prevState = gameState
    /\ lastOp = "init"
    /\ lastDir = "none"
    /\ lastResult = [board |-> gameState.board, score |-> 0]
    /\ moves = 0
    /\ before = Found(boardSize, gameState)
    /\ lastInput = NoInput
    /\ line = NoLine
    /\ slid = NoSlid
    /\ heap = NoHeap
    /\ pending = <<>>
    /\ applied = <<>>

NextSlide == \E direction \in Directions : callApplyDirection(direction)

SpecSlide == InitSlide /\ [][NextSlide]_vars

-----------------------------------------------------------------------------
(* The engine called on a board in memory *)

\* prevState is the state passed in; its board is at AddressIn(board) of
\* HeapOf(board)
InitMemory ==
    /\ boardSize \in Sizes
    /\ gameState \in InputStates(boardSize)
    /\ prevState = gameState
    /\ lastOp = "init"
    /\ lastDir = "none"
    /\ lastResult = [board |-> gameState.board, score |-> 0]
    /\ moves = 0
    /\ before = Found(boardSize, gameState)
    /\ lastInput = NoInput
    /\ line = NoLine
    /\ slid = NoSlid
    /\ heap = HeapOf(gameState.board)
    /\ pending = <<>>
    /\ applied = <<>>

callAddRandomTileAt ==
    /\ lastOp = "init"
    /\ \E pick \in Picks(prevState.board), value \in SpawnValues :
          LET spawned == addRandomTileAt(heap, AddressIn(prevState.board),
                                         pick, value)
          IN  /\ heap' = spawned.heap
              /\ lastResult' = [board |-> BoardAt(spawned.heap, spawned.board),
                                score |-> 0]
    /\ lastOp' = "addRandomTile"
    /\ UNCHANGED <<boardSize, gameState, prevState, lastDir, moves, before,
                   lastInput, line, slid, pending, applied>>

callApplyDirectionAt(direction) ==
    /\ lastOp = "init"
    /\ LET result == applyDirectionAt(heap, AddressIn(prevState.board), direction)
       IN  /\ heap' = result.heap
           /\ lastResult' = [board |-> BoardAt(result.heap, result.board),
                             score |-> result.score]
    /\ lastOp' = "applyDirection"
    /\ lastDir' = direction
    /\ UNCHANGED <<boardSize, gameState, prevState, moves, before, lastInput,
                   line, slid, pending, applied>>

callMakeMoveAt(direction) ==
    /\ lastOp = "init"
    /\ \E pick \in Picks(applyDirection(prevState.board, direction).board),
          value \in SpawnValues :
          LET made == makeMoveAt(heap,
                          [prevState EXCEPT !.board = AddressIn(prevState.board)],
                          direction, pick, value)
          IN  /\ heap' = made.heap
              /\ gameState' = [made.state EXCEPT
                                  !.board = BoardAt(made.heap, made.state.board)]
    /\ lastResult' = applyDirection(prevState.board, direction)
    /\ lastOp' = "makeMove"
    /\ lastDir' = direction
    /\ moves' = moves + 1
    /\ UNCHANGED <<boardSize, prevState, before, lastInput, line, slid,
                   pending, applied>>

NextMemory ==
    \/ callAddRandomTileAt
    \/ \E direction \in Directions : callApplyDirectionAt(direction)
    \/ \E direction \in Directions : callMakeMoveAt(direction)

SpecMemory == InitMemory /\ [][NextMemory]_vars

-----------------------------------------------------------------------------
(* use-game.ts with the updaters queued until the next render *)

\* faulty variant: every updater is given the state the render started from
RECURSIVE ProcessQueue_Stale(_, _)
ProcessQueue_Stale(state, queue) ==
    IF queue = <<>> THEN {state}
    ELSE IF Len(queue) > 1 THEN ProcessQueue_Stale(state, Tail(queue))
    ELSE {makeMove(state, Head(queue), pick, value) :
             pick \in Picks(applyDirection(state.board, Head(queue)).board),
             value \in SpawnValues}

\* The updaters (prevState) => makeMove(prevState, direction) queued by
\* setGameState are run in the order they were queued, each on the state the
\* one before it returned; the state the last one returns is rendered.
RECURSIVE ProcessQueue(_, _)
ProcessQueue(state, queue) ==
    IF queue = <<>> THEN {state}
    ELSE UNION {ProcessQueue(next, Tail(queue)) :
                next \in {makeMove(state, Head(queue), pick, value) :
                    pick \in Picks(applyDirection(state.board,
                                                  Head(queue)).board),
                    value \in SpawnValues}}

\* handleMove: setGameState queues the updater, gameState is not yet changed
handleMoveQueued(direction) ==
    /\ moves < MaxQueue
    /\ pending' = Append(pending, direction)
    /\ lastOp' = "move"
    /\ moves' = moves + 1
    /\ UNCHANGED <<boardSize, gameState, prevState, lastDir, lastResult,
                   before, lastInput, line, slid, heap, applied>>

\* handleKeyPress reads gameOver of the state that was rendered last
handleKeyPressQueued(key) ==
    /\ moves < MaxQueue
    /\ pending' = IF gameState.gameOver \/ KeyDirection(key) = "none"
                  THEN pending
                  ELSE Append(pending, KeyDirection(key))
    /\ lastOp' = "key"
    /\ moves' = moves + 1
    /\ UNCHANGED <<boardSize, gameState, prevState, lastDir, lastResult,
                   before, lastInput, line, slid, heap, applied>>

\* the renders of the session that processed updaters, counted up to 1
Rendered == IF applied = <<>> THEN 0 ELSE 1

\* the next render: useState returns the state the queued updaters produce
render ==
    /\ pending # <<>>
    /\ Rendered < MaxRenders
    /\ gameState' \in ProcessQueue(gameState, pending)
    /\ applied' = pending
    /\ prevState' = gameState
    /\ pending' = <<>>
    /\ lastOp' = "render"
    /\ UNCHANGED <<boardSize, lastDir, lastResult, moves, before, lastInput,
                   line, slid, heap>>

NextQueue ==
    \/ \E direction \in Directions : handleMoveQueued(direction)
    \/ \E key \in Keys : handleKeyPressQueued(key)
    \/ render

SpecQueue == Init /\ [][NextQueue]_vars

-----------------------------------------------------------------------------
(* A game played to its end: the player makes only moves that change the grid *)

\* handleMove with a direction in which the grid of a non-terminal state moves
playMove(direction) ==
    /\ ~gameState.gameOver
    /\ ~boardsEqual(applyDirection(gameState.board, direction).board,
                    gameState.board)
    /\ Move(direction, "move", MaxPlayMoves)

NextPlay == \E direction \in Directions : playMove(direction)

SpecPlay == Init /\ [][NextPlay]_vars

\* playMove is enabled for some direction
CanPlay ==
    /\ ~gameState.gameOver
    /\ moves < MaxPlayMoves
    /\ \E direction \in Directions :
          ~boardsEqual(applyDirection(gameState.board, direction).board,
                       gameState.board)

\* The player keeps moving for as long as some move changes the grid: weak
\* fairness of NextPlay, with ENABLED <<NextPlay>>_vars written out as CanPlay.
SpecPlayOn == SpecPlay /\ ([]<>(~CanPlay) \/ []<><<NextPlay>>_vars)

-----------------------------------------------------------------------------
(* Vocabulary of the properties *)

\* makeMove has been called: prevState is its input, gameState what it returned
Moved == lastOp \in {"move", "key"} /\ lastDir \in Directions

\* the last move was called on a non-terminal state and changed the grid
Accepted ==
    /\ Moved
    /\ ~prevState.gameOver
    /\ lastResult.board # prevState.board

Cells(board) == {<<i, j>> : i \in 1..Len(board), j \in 1..Len(board)}

TileCells(board) == {c \in Cells(board) : board[c[1]][c[2]] # 0}

\* no empty cell and no two horizontally or vertically adjacent equal cells
Stuck(board) ==
    /\ TileCells(board) = Cells(board)
    /\ \A i \in 1..Len(board) : \A j \in 1..(Len(board) - 1) :
          board[i][j] # board[i][j + 1]
    /\ \A i \in 1..(Len(board) - 1) : \A j \in 1..Len(board) :
          board[i][j] # board[i + 1][j]

\* the tiles of a line in order, without the empty cells
RECURSIVE Compact(_)
Compact(s) ==
    IF s = <<>> THEN <<>>
    ELSE IF Head(s) = 0 THEN Compact(Tail(s))
         ELSE <<Head(s)>> \o Compact(Tail(s))

\* length of the run of equal values of s that starts at i
RECURSIVE RunLen(_, _)
RunLen(s, i) ==
    IF i < Len(s) /\ s[i + 1] = s[i] THEN 1 + RunLen(s, i + 1) ELSE 1

RECURSIVE Copies(_, _)
Copies(n, v) == IF n <= 0 THEN <<>> ELSE <<v>> \o Copies(n - 1, v)

\* Each tile merges at most once: a run of L equal tiles v becomes L \div 2
\* tiles 2v followed by the odd tile v, and runs do not interact.
RECURSIVE MergeRuns(_, _)
MergeRuns(s, i) ==
    IF i > Len(s) THEN <<>>
    ELSE LET L == RunLen(s, i)
         IN  Copies(L \div 2, 2 * s[i]) \o Copies(L % 2, s[i])
             \o MergeRuns(s, i + L)

\* the values of the tiles created by merges in a line
RECURSIVE MergeGain(_, _)
MergeGain(s, i) ==
    IF i > Len(s) THEN 0
    ELSE LET L == RunLen(s, i)
         IN  (L \div 2) * (2 * s[i]) + MergeGain(s, i + L)

MergedOnce(l) ==
    LET tiles == MergeRuns(Compact(l), 1)
    IN  tiles \o Copies(Len(l) - Len(tiles), 0)

LineGain(l) == MergeGain(Compact(l), 1)

\* the cells of row i left to right, and of column j top to bottom
RowOf(board, i) == [j \in 1..Len(board) |-> board[i][j]]
ColOf(board, j) == [i \in 1..Len(board) |-> board[i][j]]

Backwards(s) == [k \in 1..Len(s) |-> s[Len(s) + 1 - k]]

RECURSIVE Sum(_)
Sum(s) == IF s = <<>> THEN 0 ELSE Head(s) + Sum(Tail(s))

-----------------------------------------------------------------------------
(* Properties *)

\* C1: victory is sticky: a move made from a state whose victory flag is true
\* returns a state whose victory flag is true.
C1_VictorySticky == (Moved /\ prevState.won) => gameState.won

\* C2: terminal is absorbing: a move (or key press) in a state whose terminal
\* flag is true returns that state unchanged, so a terminal state changes only
\* by a new session.
C2_TerminalAbsorbing == (Moved /\ prevState.gameOver) => gameState = prevState

C2_Witness ==
    /\ Moved
    /\ prevState.gameOver
    /\ Stuck(prevState.board)
    /\ gameState = prevState

\* C3: a move from a non-terminal state that leaves the grid as it is returns
\* the input state: same grid, score and flags, no tile spawned.
C3_NoOpMove ==
    (Moved /\ ~prevState.gameOver /\ lastResult.board = prevState.board)
        => gameState = prevState

C3_Witness ==
    /\ Moved
    /\ ~prevState.gameOver
    /\ lastResult.board = prevState.board
    /\ TileCells(prevState.board) # {}
    /\ TileCells(prevState.board) # Cells(prevState.board)
    /\ gameState = prevState

\* C4 as stated: canMove is true exactly when one of the four directions
\* changes the grid, for every grid.
C4_CanMoveIffSomeMoveChanges ==
    canMove(gameState.board)
        <=> \E d \in Directions :
                applyDirection(gameState.board, d).board # gameState.board

\* C4 amended: for every grid that holds at least one tile, canMove is true
\* exactly when one of the four directions changes the grid.
C4_CanMoveIffSomeMoveChangesWithTile ==
    TileCells(gameState.board) # {}
        => (canMove(gameState.board)
              <=> \E d \in Directions :
                      applyDirection(gameState.board, d).board # gameState.board)

\* a full grid whose only equal neighbours are one above the other
C4_Witness ==
    /\ TileCells(gameState.board) = Cells(gameState.board)
    /\ Len(gameState.board) >= 2
    /\ \A i \in 1..Len(gameState.board) : \A j \in 1..(Len(gameState.board) - 1) :
          gameState.board[i][j] # gameState.board[i][j + 1]
    /\ canMove(gameState.board)
    /\ applyDirection(gameState.board, "up").board # gameState.board

\* C5: a move never decreases the score, and an accepted move adds exactly the
\* values of the tiles created by merges in that move.
C5_ScoreExact ==
    Moved =>
        /\ gameState.score >= prevState.score
        /\ Accepted =>
             LET n == Len(prevState.board)
                 gain == IF lastDir \in {"left", "right"}
                         THEN Sum([i \in 1..n |-> LineGain(RowOf(prevState.board, i))])
                         ELSE Sum([j \in 1..n |-> LineGain(ColOf(prevState.board, j))])
             IN  gameState.score = prevState.score + gain

C5_Witness ==
    /\ Accepted
    /\ prevState.score > 0
    /\ gameState.score > prevState.score

\* C6: after an accepted move the terminal flag is true exactly when the grid
\* after the spawn has no empty cell and no two adjacent equal cells.
C6_TerminalAfterMove == Accepted => (gameState.gameOver <=> Stuck(gameState.board))

C6_Witness == Accepted /\ gameState.gameOver /\ Len(gameState.board) >= 2

\* C7: slideRow merges each tile at most once: its row is the line with every
\* run of equal tiles merged pairwise from the left, no merged tile merging
\* again; [2,2,2,2] gives [4,4,0,0], [2,2,2] gives [4,2,0], [2,2,4] gives [4,4,0].
C7_MergeOnce ==
    lastOp = "slideRow" =>
        /\ slid.row = MergedOnce(line)
        /\ line = <<2, 2, 2, 2>> => slid.row = <<4, 4, 0, 0>>
        /\ line = <<2, 2, 2>> => slid.row = <<4, 2, 0>>
        /\ line = <<2, 2, 4>> => slid.row = <<4, 4, 0>>

C7_Witness ==
    /\ lastOp = "slideRow"
    /\ line = <<2, 2, 4>>
    /\ slid.row = <<4, 4, 0>>

\* the row [2,0,2,0] of the end-to-end scenario, on a 4 x 4 grid
ScenarioBoard ==
    <<(<<2, 0, 2, 0>>), (<<0, 0, 0, 0>>), (<<0, 0, 0, 0>>), (<<0, 0, 0, 0>>)>>

\* C8: moving left applies slideRow to every row, the score gained being the
\* sum of the rows' scores; moving right is reversing every row, moving left
\* and reversing every row of the result; [2,0,2,0] gives [4,0,0,0] to the
\* left and [0,0,0,4] to the right, each gaining 4.
C8_LeftRight ==
    /\ Moved /\ lastDir = "left" =>
         /\ Len(lastResult.board) = Len(prevState.board)
         /\ \A i \in 1..Len(prevState.board) :
               lastResult.board[i] = slideRow(RowOf(prevState.board, i)).row
         /\ lastResult.score
               = Sum([i \in 1..Len(prevState.board) |->
                        slideRow(RowOf(prevState.board, i)).score])
    /\ Moved /\ lastDir = "right" =>
         LET reversed == [i \in 1..Len(prevState.board) |->
                             Backwards(RowOf(prevState.board, i))]
             left == applyDirection(reversed, "left")
         IN  /\ Len(lastResult.board) = Len(prevState.board)
             /\ \A i \in 1..Len(prevState.board) :
                   lastResult.board[i] = Backwards(left.board[i])
             /\ lastResult.score = left.score
    /\ applyDirection(ScenarioBoard, "left").board[1] = <<4, 0, 0, 0>>
    /\ applyDirection(ScenarioBoard, "left").score = 4
    /\ applyDirection(ScenarioBoard, "right").board[1] = <<0, 0, 0, 4>>
    /\ applyDirection(ScenarioBoard, "right").score = 4

\* a move to the right that merges a row [v, v] into [0, 2v]
C8_Witness ==
    /\ Moved
    /\ lastDir = "right"
    /\ Len(prevState.board) = 2
    /\ prevState.board[1] = <<2, 2>>
    /\ lastResult.board[1] = <<0, 4>>
    /\ lastResult.score >= 4

\* C9: moving up leaves in every column, read top to bottom, slideRow of the
\* original column read top to bottom; moving down leaves in every column,
\* read bottom to top, slideRow of the original column read bottom to top; the
\* score gained is the sum of the columns' scores and the grid keeps its shape.
C9_UpDown ==
    /\ Moved /\ lastDir = "up" =>
         /\ Len(lastResult.board) = Len(prevState.board)
         /\ \A i \in 1..Len(lastResult.board) :
               Len(lastResult.board[i]) = Len(prevState.board)
         /\ \A j \in 1..Len(prevState.board) :
               ColOf(lastResult.board, j) = slideRow(ColOf(prevState.board, j)).row
         /\ lastResult.score
               = Sum([j \in 1..Len(prevState.board) |->
                        slideRow(ColOf(prevState.board, j)).score])
    /\ Moved /\ lastDir = "down" =>
         /\ Len(lastResult.board) = Len(prevState.board)
         /\ \A i \in 1..Len(lastResult.board) :
               Len(lastResult.board[i]) = Len(prevState.board)
         /\ \A j \in 1..Len(prevState.board) :
               Backwards(ColOf(lastResult.board, j))
                   = slideRow(Backwards(ColOf(prevState.board, j))).row
         /\ lastResult.score
               = Sum([j \in 1..Len(prevState.board) |->
                        slideRow(Backwards(ColOf(prevState.board, j))).score])

\* a move up that merges a column [v, v] into [2v, 0] beside a column it
\* only shifts
C9_Witness ==
    /\ Moved
    /\ lastDir = "up"
    /\ prevState.board = <<(<<2, 0>>), (<<2, 4>>)>>
    /\ lastResult.board = <<(<<4, 4>>), (<<0, 0>>)>>
    /\ lastResult.score = 4

\* a session has just been started by initializeGame
Fresh == lastOp \in {"init", "restart", "resize"}

\* C10: initializeGame(N) returns an N x N grid with exactly two tiles when
\* N >= 2 (one when the grid has a single cell), each 2 or 4, every other cell
\* 0, score 0, terminal and victory false.
C10_FreshSession ==
    Fresh =>
        /\ Len(gameState.board) = boardSize
        /\ \A i \in 1..boardSize : Len(gameState.board[i]) = boardSize
        /\ Cardinality(TileCells(gameState.board))
              = (IF boardSize >= 2 THEN 2 ELSE 1)
        /\ \A c \in TileCells(gameState.board) :
              gameState.board[c[1]][c[2]] \in {2, 4}
        /\ gameState.score = 0
        /\ gameState.gameOver = FALSE
        /\ gameState.won = FALSE

\* a session restarted on a 2 x 2 grid
C10_Witness ==
    /\ lastOp = "restart"
    /\ boardSize = 2
    /\ Cardinality(TileCells(gameState.board)) = 2
    /\ gameState.score = 0

\* the cells in which two boards of the same shape differ
Changed(board1, board2) ==
    {c \in Cells(board1) : board1[c[1]][c[2]] # board2[c[1]][c[2]]}

SameShape(board1, board2) ==
    /\ Len(board1) = Len(board2)
    /\ \A i \in 1..Len(board1) : Len(board1[i]) = Len(board2[i])

\* C11: addRandomTile returns a full grid as it is; on a grid with an empty
\* cell its result differs from the input in exactly one cell, which held 0
\* and holds 2 or 4 afterwards.
C11_SpawnFrame ==
    lastOp = "addRandomTile" =>
        LET input == gameState.board
            result == lastResult.board
        IN  /\ SameShape(input, result)
            /\ IF TileCells(input) = Cells(input)
               THEN result = input
               ELSE /\ Cardinality(Changed(input, result)) = 1
                    /\ \A c \in Changed(input, result) :
                          /\ input[c[1]][c[2]] = 0
                          /\ result[c[1]][c[2]] \in {2, 4}

\* a 4 spawned in the second of the two empty cells of a 2 x 2 grid
C11_Witness ==
    /\ lastOp = "addRandomTile"
    /\ gameState.board = <<(<<2, 0>>), (<<4, 0>>)>>
    /\ lastResult.board = <<(<<2, 0>>), (<<4, 4>>)>>

\* board is size x size
IsSquare(board, size) ==
    /\ Len(board) = size
    /\ \A i \in 1..Len(board) : Len(board[i]) = size

\* C12: the grid of the session is boardSize x boardSize in every reachable
\* state, and a move or a key press returns a grid of the dimensions it was
\* given: only handleBoardSizeChange with another size changes them.
C12_GridShape ==
    /\ IsSquare(gameState.board, boardSize)
    /\ lastOp \in {"move", "key", "restart"}
          => SameShape(prevState.board, gameState.board)
    /\ Moved => IsSquare(lastResult.board, boardSize)

\* an accepted move on a 2 x 2 grid in which a merge shortened a line
C12_Witness ==
    /\ Accepted
    /\ boardSize = 2
    /\ lastResult.score > 0
    /\ IsSquare(gameState.board, 2)

RECURSIVE IsPowerOfTwo(_)
IsPowerOfTwo(v) ==
    \/ v = 1
    \/ v > 1 /\ v % 2 = 0 /\ IsPowerOfTwo(v \div 2)

\* C13: in every reachable state every cell of the grid is 0 or a power of
\* two that is at least 2.
C13_TileValues ==
    \A c \in Cells(gameState.board) :
        LET cell == gameState.board[c[1]][c[2]]
        IN  cell = 0 \/ (cell >= 2 /\ IsPowerOfTwo(cell))

\* a grid that holds a tile made by two merges beside a spawned tile
C13_Witness ==
    /\ Accepted
    /\ \E c \in Cells(gameState.board) : gameState.board[c[1]][c[2]] = 8
    /\ \E c \in Cells(gameState.board) : gameState.board[c[1]][c[2]] = 2

\* the states makeMove(state, direction) can return, one for each draw of
\* Math.random() in addRandomTile
Outcomes(state, direction) ==
    {makeMove(state, direction, pick, value) :
        pick \in Picks(applyDirection(state.board, direction).board),
        value \in SpawnValues}

C15_NewSessionFresh ==
    lastOp \in {"restart", "resize"} =>
        /\ gameState.score = 0
        /\ ~gameState.gameOver
        /\ ~gameState.won
        /\ Cardinality(TileCells(gameState.board)) = 2
        /\ IsSquare(gameState.board, boardSize)
        /\ lastOp = "restart" => boardSize = before.boardSize

\* a 3 x 3 session started by a resize from a 2 x 2 state that was both
\* terminal and victorious
C15_Witness ==
    /\ lastOp = "resize"
    /\ before = [boardSize |-> 2, gameOver |-> TRUE, won |-> TRUE]
    /\ boardSize = 3
    /\ Cardinality(TileCells(gameState.board)) = 2

\* C16: on the page, which starts at size 4, boardSize is always an integer
\* in 3..10 and the grid is boardSize x boardSize; a text from which parseInt
\* reads no number, or a number outside 3..10, leaves boardSize and the game
\* state as they were.
C16_BoardSizeBound ==
    /\ boardSize \in 3..10
    /\ IsSquare(gameState.board, boardSize)
    /\ lastOp = "size" =>
          LET size == parseInt(lastInput) IN
          IF ~size.isNaN /\ size.value \in 3..10
          THEN boardSize = size.value
          ELSE boardSize = before.boardSize /\ gameState = prevState

\* the text "11" typed while a 10 x 10 game was going on
C16_Witness ==
    /\ lastOp = "size"
    /\ lastInput = <<"1", "1">>
    /\ boardSize = 10
    /\ before.boardSize = 10
    /\ gameState = prevState

\* C17: a move that changes the grid of a state that has won and is not
\* terminal is accepted: the state returned holds the moved grid with one
\* tile spawned in a cell the move left empty, and the score raised by the
\* gain of the move; it is not the input state.
C17_PlayAfterWin ==
    (Accepted /\ prevState.won) =>
        /\ gameState # prevState
        /\ SameShape(lastResult.board, gameState.board)
        /\ Cardinality(Changed(lastResult.board, gameState.board)) = 1
        /\ \A c \in Changed(lastResult.board, gameState.board) :
              /\ lastResult.board[c[1]][c[2]] = 0
              /\ gameState.board[c[1]][c[2]] \in {2, 4}
        /\ gameState.score = prevState.score + lastResult.score

\* a merge of two tiles in a state that has won
C17_Witness ==
    /\ Accepted
    /\ prevState.won
    /\ ~prevState.gameOver
    /\ lastResult.score > 0
    /\ gameState.score = prevState.score + lastResult.score

\* some cell of the board holds 2048 or more
HoldsTarget(board) == \E c \in Cells(board) : board[c[1]][c[2]] >= 2048

\* C18: an accepted move from a state whose victory flag is false returns the
\* flag true exactly when some cell of the grid after the spawn is 2048 or
\* more; a grid whose tiles are all 1024 or less leaves it false.
C18_VictoryDetected ==
    (Accepted /\ ~prevState.won) =>
        /\ gameState.won <=> HoldsTarget(gameState.board)
        /\ (\A c \in Cells(gameState.board) :
                gameState.board[c[1]][c[2]] <= 1024) => ~gameState.won

\* two tiles 1024 merged into the first 2048 of the grid
C18_Witness ==
    /\ Accepted
    /\ ~prevState.won
    /\ ~HoldsTarget(prevState.board)
    /\ lastResult.score = 2048
    /\ gameState.won

\* C19 as stated: the sum of the row slideRow returns is the sum of the
\* non-zero entries of the line plus the score gained, the sum of the values
\* produced by merges.
C19_SumPlusMerges ==
    lastOp = "slideRow" =>
        Sum(slid.row) = Sum(Compact(line)) + slid.score

\* C19 as amended: the sum of the row slideRow returns is the sum of the
\* non-zero entries of the line, a merge replacing two tiles by their sum;
\* the score gained is the sum of the values produced by merges and is no
\* part of the row's sum.
C19_SumConserved ==
    lastOp = "slideRow" =>
        /\ Sum(slid.row) = Sum(Compact(line))
        /\ slid.score = LineGain(line)

\* [2,2,0,4] gives [4,4,0,0]: the sum stays 8 and the score gained is 4
C19_Witness ==
    /\ lastOp = "slideRow"
    /\ line = <<2, 2, 0, 4>>
    /\ slid.row = <<4, 4, 0, 0>>
    /\ slid.score = 4
    /\ Sum(slid.row) = 8

\* C20: four clockwise rotations of a grid return the grid; hence three
\* rotations undo one, and one undoes three, as moveUp and moveDown need.
C20_FourRotations ==
    lastOp = "rotateBoard" =>
        /\ moves = 4 => lastResult.board = gameState.board
        /\ moves = 1 =>
              rotateBoard(rotateBoard(rotateBoard(lastResult.board)))
                  = gameState.board
        /\ moves = 3 => rotateBoard(lastResult.board) = gameState.board

\* the fourth rotation of a grid that the first three rotations each changed
C20_Witness ==
    /\ lastOp = "rotateBoard"
    /\ moves = 4
    /\ gameState.board = <<(<<2, 4>>), (<<0, 1024>>)>>
    /\ lastResult.board = gameState.board
    /\ rotateBoard(gameState.board) = <<(<<0, 2>>), (<<1024, 4>>)>>

\* C21: after addRandomTile, a move function or makeMove returns, every
\* array of the board passed in holds what it held before the call.
C21_InputUntouched ==
    lastOp \in {"addRandomTile", "applyDirection", "makeMove"} =>
        /\ \A a \in 1..Len(HeapOf(prevState.board)) :
              heap[a] = HeapOf(prevState.board)[a]
        /\ BoardAt(heap, AddressIn(prevState.board)) = prevState.board

\* a move to the right, which turns rows round, returned another board and
\* left the board passed in as it was
C21_Witness ==
    /\ lastOp = "applyDirection"
    /\ lastDir = "right"
    /\ prevState.board = <<(<<2, 4>>), (<<4, 0>>)>>
    /\ lastResult.board = <<(<<2, 4>>), (<<0, 4>>)>>
    /\ lastResult.board = applyDirection(prevState.board, "right").board
    /\ BoardAt(heap, AddressIn(prevState.board)) = prevState.board
    /\ Len(heap) > Len(HeapOf(prevState.board))

\* the line k of board along direction, read from the edge the tiles move to
LineAlong(board, k, direction) ==
    CASE direction = "left" -> RowOf(board, k)
      [] direction = "right" -> Backwards(RowOf(board, k))
      [] direction = "up" -> ColOf(board, k)
      [] direction = "down" -> Backwards(ColOf(board, k))

\* no 0 comes before a tile
Packed(l) == \A i \in 1..(Len(l) - 1) : l[i] = 0 => l[i + 1] = 0

\* out is in with some pairs of equal neighbours replaced by their sum,
\* every other tile staying where it was in the order
RECURSIVE PairsMerged(_, _)
PairsMerged(in, out) ==
    IF in = <<>> \/ out = <<>> THEN in = <<>> /\ out = <<>>
    ELSE \/ Head(out) = Head(in) /\ PairsMerged(Tail(in), Tail(out))
         \/ /\ Len(in) >= 2
            /\ in[1] = in[2]
            /\ Head(out) = 2 * in[1]
            /\ PairsMerged(Tail(Tail(in)), Tail(out))

\* C22: after a move function every line along the direction, read from the
\* edge the tiles move to, has its tiles before its empty cells, and its
\* tiles are those of the input line in their order, pairs of equal
\* neighbours being merged; a line without equal neighbours keeps its tiles.
C22_PackedInOrder ==
    lastOp = "applyDirection" =>
        \A k \in 1..Len(prevState.board) :
            LET in == Compact(LineAlong(prevState.board, k, lastDir))
                out == LineAlong(lastResult.board, k, lastDir)
            IN  /\ Len(out) = Len(prevState.board)
                /\ Packed(out)
                /\ PairsMerged(in, Compact(out))
                /\ (\A i \in 1..(Len(in) - 1) : in[i] # in[i + 1])
                      => Compact(out) = in

\* two tiles of the first row of a 4 x 4 board, apart and unequal, moved to
\* the right edge in their order
C22_Witness ==
    /\ lastOp = "applyDirection"
    /\ lastDir = "right"
    /\ prevState.board[1] = <<2, 0, 4, 0>>
    /\ lastResult.board[1] = <<0, 0, 2, 4>>

\* C23: the cell (r, c) of rotateBoard(grid) is the cell (N-1-c, r) of grid,
\* indices from 0, that is the cell (N+1-c, r) with indices from 1: row r of
\* the result is column r of the grid read bottom to top, the transpose with
\* every row reversed.
C23_RotationPointwise ==
    (lastOp = "rotateBoard" /\ moves = 1) =>
        LET N == Len(gameState.board) IN
        /\ IsSquare(lastResult.board, N)
        /\ \A r \in 1..N : \A c \in 1..N :
              lastResult.board[r][c] = gameState.board[N + 1 - c][r]
        /\ \A r \in 1..N :
              lastResult.board[r] = Backwards(ColOf(gameState.board, r))

\* the first row of a 3 x 3 board has become the last column
C23_Witness ==
    /\ lastOp = "rotateBoard"
    /\ moves = 1
    /\ boardSize = 3
    /\ gameState.board[1] = <<2, 4, 0>>
    /\ lastResult.board[1][3] = 2
    /\ lastResult.board[2][3] = 4
    /\ lastResult.board[3][3] = 0

\* C24: for a non-terminal state and a direction, all the states makeMove can
\* return have the same score and are built on the same moved grid; a rejected
\* move has one result, the state itself; the results of an accepted move
\* differ from the moved grid in exactly one cell, empty after the slide, that
\* holds 2 or 4; the victory flag is the same in all of them and two results
\* with the same grid are the same state.
C24_OnlySpawnDiffers ==
    (Moved /\ ~prevState.gameOver) =>
        \A o \in Outcomes(prevState, lastDir) :
            /\ o.score = gameState.score
            /\ o.won = gameState.won
            /\ ~Accepted => o = prevState
            /\ Accepted =>
                  /\ SameShape(o.board, lastResult.board)
                  /\ Cardinality(Changed(o.board, lastResult.board)) = 1
                  /\ \A c \in Changed(o.board, lastResult.board) :
                        /\ lastResult.board[c[1]][c[2]] = 0
                        /\ o.board[c[1]][c[2]] \in {2, 4}
            /\ \A other \in Outcomes(prevState, lastDir) :
                  other.board = o.board => other = o

\* an accepted move with a result that spawned elsewhere and a result that
\* spawned the other value in the same cell
C24_Witness ==
    /\ Accepted
    /\ \E o \in Outcomes(prevState, lastDir) :
          Cardinality(Changed(o.board, gameState.board)) = 2
    /\ \E o \in Outcomes(prevState, lastDir) :
          /\ Cardinality(Changed(o.board, gameState.board)) = 1
          /\ Changed(o.board, lastResult.board)
                = Changed(gameState.board, lastResult.board)

\* the states a left-to-right fold of makeMove over the directions can return
RECURSIVE FoldMoves(_, _)
FoldMoves(state, directions) ==
    IF directions = <<>> THEN {state}
    ELSE UNION {Outcomes(s, directions[Len(directions)]) :
                   s \in FoldMoves(state, SubSeq(directions, 1,
                                                 Len(directions) - 1))}

\* C25: the state a render leaves is a state that a fold of makeMove over the
\* directions of the moves issued since the render before, in the order of
\* issue, returns from the state rendered before; and once a prefix of those
\* moves has made the state terminal, the moves after it change nothing.
C25_MovesSerialized ==
    lastOp = "render" =>
        /\ gameState \in FoldMoves(prevState, applied)
        /\ \A k \in 1..Len(applied) :
              \A s \in FoldMoves(prevState, SubSeq(applied, 1, k - 1)) :
                  s.gameOver =>
                      FoldMoves(s, SubSeq(applied, k, Len(applied))) = {s}

\* three moves issued before one render: the first two are accepted, the
\* second ends the game and the third, issued while the rendered state was
\* not terminal, changes nothing
C25_Witness ==
    /\ lastOp = "render"
    /\ Len(applied) = 3
    /\ ~prevState.gameOver
    /\ gameState.gameOver
    /\ \E s \in Outcomes(prevState, applied[1]) :
          /\ s.board # prevState.board
          /\ ~s.gameOver
          /\ gameState \in Outcomes(s, applied[2])
          /\ gameState.board # s.board
          /\ applyDirection(gameState.board, applied[3]).board
                = gameState.board

\* C26: in every state of a session on a board of size 2 or more, whatever
\* the moves, restarts and resizes that led to it, the terminal flag is true
\* exactly when canMove is false of the grid.
C26_TerminalIffStuck ==
    boardSize >= 2 => (gameState.gameOver <=> ~canMove(gameState.board))

\* a session that two accepted moves have brought to a full grid that cannot
\* move
C26_Witness ==
    /\ boardSize >= 2
    /\ Moved
    /\ moves >= 2
    /\ ~prevState.gameOver
    /\ gameState.gameOver
    /\ ~canMove(gameState.board)
    /\ TileCells(gameState.board) = Cells(gameState.board)

\* the number of pairs that merge in a line of tiles: a run of L equal tiles
\* holds L \div 2 of them
RECURSIVE MergeCount(_, _)
MergeCount(s, i) ==
    IF i > Len(s) THEN 0
    ELSE LET L == RunLen(s, i)
         IN  (L \div 2) + MergeCount(s, i + L)

RECURSIVE MergesFrom(_, _, _)
MergesFrom(board, direction, k) ==
    IF k > Len(board) THEN 0
    ELSE MergeCount(Compact(LineAlong(board, k, direction)), 1)
         + MergesFrom(board, direction, k + 1)

\* the merges of a move of the board in the direction
Merges(board, direction) == MergesFrom(board, direction, 1)

\* C27: a grid that the slide has changed has an empty cell, so an accepted
\* move spawns exactly one tile: the grid returned differs from the moved
\* grid, and it holds as many tiles as the grid before the move, minus one
\* for each merge, plus one.
C27_OneTileSpawned ==
    /\ (Moved /\ lastResult.board # prevState.board) =>
          TileCells(lastResult.board) # Cells(lastResult.board)
    /\ Accepted =>
          /\ gameState.board # lastResult.board
          /\ Cardinality(TileCells(lastResult.board))
                = Cardinality(TileCells(prevState.board))
                  - Merges(prevState.board, lastDir)
          /\ Cardinality(TileCells(gameState.board))
                = Cardinality(TileCells(prevState.board))
                  - Merges(prevState.board, lastDir) + 1

\* a full 2 x 2 grid in which two pairs merge: four tiles before the move,
\* two after the slide, three after the spawn
C27_Witness ==
    /\ Accepted
    /\ TileCells(prevState.board) = Cells(prevState.board)
    /\ Len(prevState.board) = 2
    /\ Merges(prevState.board, lastDir) = 2
    /\ Cardinality(TileCells(lastResult.board)) = 2
    /\ Cardinality(TileCells(gameState.board)) = 3

\* the sum of the cells of rows k.. of a board
RECURSIVE SumFrom(_, _)
SumFrom(board, k) ==
    IF k > Len(board) THEN 0 ELSE Sum(board[k]) + SumFrom(board, k + 1)

BoardSum(board) == SumFrom(board, 1)

\* C28: the slide in any direction leaves the sum of the cells of the grid as
\* it was; an accepted move adds exactly the spawned tile, 2 or 4, to the sum
\* and a rejected move leaves the sum unchanged.
C28_SumConservedByMove ==
    Moved =>
        /\ BoardSum(lastResult.board) = BoardSum(prevState.board)
        /\ Accepted =>
              BoardSum(gameState.board) - BoardSum(prevState.board) \in {2, 4}
        /\ ~Accepted => BoardSum(gameState.board) = BoardSum(prevState.board)

\* a move up that merges two 4s and spawns a 4: the sum goes from 10 to 14
C28_Witness ==
    /\ Accepted
    /\ lastDir = "up"
    /\ prevState.board = <<(<<4, 2>>), (<<4, 0>>)>>
    /\ lastResult.board = <<(<<8, 2>>), (<<0, 0>>)>>
    /\ BoardSum(prevState.board) = 10
    /\ BoardSum(gameState.board) = 14

\* no direction changes the grid
NoMoveChanges(board) ==
    \A d \in Directions : applyDirection(board, d).board = board

\* a bound of the accepted moves of a game on an N x N board: every accepted
\* move adds 2 or more to the sum of the cells, which N * N tiles of at most
\* 2^(N * N + 1) bound
MoveBound(N) == (N * N * Pow2(N * N + 1)) \div 2

\* C29: every game ends: the accepted moves of a session number at most
\* MoveBound(boardSize), and when the player keeps making moves that change
\* the grid a state is reached in which no move changes the grid, which on a
\* board of size 2 or more is a terminal state.
C29_GameEnds ==
    /\ [](moves <= MoveBound(boardSize))
    /\ <>[](NoMoveChanges(gameState.board)
             /\ (boardSize >= 2 => gameState.gameOver))

\* a 2 x 2 game that ended after twenty accepted moves or more
C29_Witness ==
    /\ boardSize = 2
    /\ Moved
    /\ moves >= 20
    /\ gameState.gameOver
    /\ NoMoveChanges(gameState.board)

\* the cells of the board that hold a tile greater than v
Above(board, v) == {c \in Cells(board) : board[c[1]][c[2]] > v}

\* C30: in every state of a session on an N x N board no tile exceeds
\* 2^(N * N + 1); more precisely the k-th largest tile is at most
\* 2^(N * N + 2 - k), fewer than k tiles exceeding it.  The victory flag is
\* set only with a tile of 2048 or more on the grid, so never on a board for
\* which 2^(N * N + 1) is below 2048, as it is for N = 3.
C30_MaxTile ==
    LET N == boardSize
        board == gameState.board
    IN  /\ Above(board, Pow2(N * N + 1)) = {}
        /\ \A k \in 1..(N * N) :
              Cardinality(Above(board, Pow2(N * N + 2 - k))) < k
        /\ gameState.won => Above(board, WinTile - 1) # {}
        /\ Pow2(N * N + 1) < WinTile => ~gameState.won
        /\ Pow2(MinBoardSize * MinBoardSize + 1) < WinTile

\* a 2 x 2 game in which the largest tile possible, 32, has been built
C30_Witness ==
    /\ boardSize = 2
    /\ Moved
    /\ Above(gameState.board, Pow2(boardSize * boardSize + 1) - 1) # {}
    /\ ~gameState.won

\* the largest cell of the board
MaxTile(board) ==
    CHOOSE v \in {board[c[1]][c[2]] : c \in Cells(board)} :
        \A c \in Cells(board) : board[c[1]][c[2]] <= v

\* C31: the largest tile never shrinks: the largest cell of the grid a move
\* returns, and of the grid after the slide alone, is at least the largest
\* cell of the grid the move was given; a grid that holds a tile of 2048 or
\* more is followed by a grid that does.
C31_LargestNeverShrinks ==
    Moved =>
        /\ MaxTile(lastResult.board) >= MaxTile(prevState.board)
        /\ MaxTile(gameState.board) >= MaxTile(prevState.board)
        /\ hasWon(prevState.board) => hasWon(gameState.board)

\* an accepted move of a grid that holds 2048, after which the tile sits in
\* another cell
C31_Witness ==
    /\ Accepted
    /\ MaxTile(prevState.board) = WinTile
    /\ MaxTile(gameState.board) = WinTile
    /\ Above(gameState.board, WinTile - 1) # Above(prevState.board, WinTile - 1)
    /\ hasWon(gameState.board)

Opposite(direction) ==
    CASE direction = "left" -> "right"
      [] direction = "right" -> "left"
      [] direction = "up" -> "down"
      [] direction = "down" -> "up"

\* C32: the score a move gains on a grid is the score the move in the
\* opposite direction gains on it: left as right, up as down.  The row
\* [2,2,2] gives [4,2,0] to the left and [0,2,4] to the right, 4 either way.
C32_OppositeGainsEqual ==
    lastOp = "applyDirection" =>
        /\ lastResult.score
              = applyDirection(prevState.board, Opposite(lastDir)).score
        /\ moveLeft(prevState.board).score = moveRight(prevState.board).score
        /\ moveUp(prevState.board).score = moveDown(prevState.board).score
        /\ prevState.board[1] = <<2, 2, 2>> =>
              /\ moveLeft(prevState.board).board[1] = <<4, 2, 0>>
              /\ moveRight(prevState.board).board[1] = <<0, 2, 4>>

\* a column [2,2,2] moved up: [4,2,0] from the top and a gain of 4 with
\* another grid than the move down returns
C32_Witness ==
    /\ lastOp = "applyDirection"
    /\ lastDir = "up"
    /\ ColOf(prevState.board, 1) = <<2, 2, 2>>
    /\ ColOf(lastResult.board, 1) = <<4, 2, 0>>
    /\ ColOf(moveDown(prevState.board).board, 1) = <<0, 2, 4>>
    /\ lastResult.score = 4
    /\ moveDown(prevState.board).score = 4

=============================================================================
